---- MODULE Spec2Model ----
(***************************************************************************)
(* EnhancedStorageManager (src/src/app.js): a namespaced, cached,          *)
(* versioned store over a flat string-keyed medium (localStorage).         *)
(*                                                                         *)
(* JavaScript values are records tagged by the field t.  Keys of the       *)
(* medium are sequences of tokens, so that startsWith, substring and       *)
(* includes are computed on the key and not assumed.  A stored string is   *)
(* the record [s, v]: s = "json" with v the value JSON.parse returns for   *)
(* it, or s = "malformed" for a string JSON.parse rejects.                 *)
(***************************************************************************)
EXTENDS Integers, Sequences, FiniteSets, TLC

\* cacheB is the cache of a second store constructed on the same medium with
\* the same storage key; it stays empty while only one store is used
\* ui is the page of the application: the filter of the button marked
\* active, the filter the task list was last rendered with, and whether the
\* page has a task list element
VARIABLES medium, cache, isAvailable, now, last, cacheB, ui

vars == <<medium, cache, isAvailable, now, last, cacheB, ui>>

(***************************** bounds **************************************)
\* milliseconds added to the clock by one Tick
TickMs == 150000
\* greatest number of clock steps
MaxTicks == 3

(************************** JavaScript values ******************************)
JNull == [t |-> "null"]
JUndef == [t |-> "undefined"]
JNaN == [t |-> "NaN"]
\* an object that refers to itself: JSON.stringify throws on it
JCirc == [t |-> "circular"]
JNum(n) == [t |-> "num", n |-> n]
JArr(items) == [t |-> "arr", items |-> items]
\* a plain object without a version field, as stored before versioning
JObj(tag) == [t |-> "obj", tag |-> tag]
\* a record of a collection; id is "absent" when the record has no id field
Rec(id, tag) == [t |-> "rec", id |-> id, tag |-> tag]
Envelope(ver, ts, hasData, data) ==
    [t |-> "env", version |-> ver, timestamp |-> ts, hasData |-> hasData, data |-> data]
MetaData(ver, ts) ==
    [t |-> "metaobj", version |-> ver, initialized |-> ts, entityTypes |-> <<>>]

\* a backup payload {version, timestamp, entities}
Payload(ver, ts, entities) ==
    [t |-> "payload", version |-> ver, timestamp |-> ts, entities |-> entities]
\* an object used as a mapping: its own properties in insertion order
Mapping(ents) == [t |-> "map", ents |-> ents]
Prop(k, v) == [k |-> k, v |-> v]
JBool(b) == [t |-> "bool", b |-> b]
\* the array of names getEntityTypes returns, as a set
JNames(names) == [t |-> "names", names |-> names]
\* an exception that leaves a public method instead of a returned value
JThrown(name) == [t |-> "thrown", name |-> name]

\* the ids a record can carry: "absent" for none, "n0".."n3" for the numbers
\* 0..3 and "s" for the empty string
IdAbsent == "absent"
\* JavaScript truthiness of an id: undefined, 0 and "" are falsy
IdTruthy(id) == id \notin {"absent", "n0", "s"}

(***************************** program constants **************************)
storageKey == <<"taskApp">>
cacheExpiry == 5 * 60 * 1000
version == "2.0"

(******************************* keys **************************************)
StartsWith(key, prefix) ==
    /\ Len(key) >= Len(prefix)
    /\ SubSeq(key, 1, Len(prefix)) = prefix
Includes(key, token) == \E i \in 1..Len(key) : key[i] = token
Prefix == storageKey \o <<"_">>
FullKey(entityType) == Prefix \o entityType
Substring(key, n) == SubSeq(key, n + 1, Len(key))

(************************* the medium and the cache ************************)
Put(f, k, v) == [x \in (DOMAIN f) \cup {k} |-> IF x = k THEN v ELSE f[x]]
Del(f, k) == [x \in (DOMAIN f) \ {k} |-> f[x]]
DelAll(f, ks) == [x \in (DOMAIN f) \ ks |-> f[x]]
Empty == [x \in {} |-> JNull]

(**************************** JSON *****************************************)
\* JSON.stringify of a value held in a property or an array: NaN becomes null
ToJSON(v) == IF v.t = "NaN" THEN JNull ELSE v
CanStringify(v) == v.t # "circular"
\* a save that stores the data itself, as before versioning
StringifyBare(ver, ts, data) == [s |-> "json", v |-> ToJSON(data)]
\* JSON.stringify({version, timestamp, data}): an undefined data is left out
StringifyEnvelope(ver, ts, data) ==
    [s |-> "json",
     v |-> IF data.t = "undefined"
           THEN Envelope(ver, ts, FALSE, JUndef)
           ELSE Envelope(ver, ts, TRUE, ToJSON(data))]
StringifyMeta(ver, ts) == [s |-> "json", v |-> MetaData(ver, ts)]
CanParse(str) == str.s = "json"
Parse(str) == str.v

\* property reads of a parsed value
CanReadProps(v) == v.t \notin {"null", "undefined"}
VersionTruthy(v) == v.t \in {"env", "metaobj"}
\* a load that hands back the stored envelope instead of its data
DataOfWhole(v) == v
DataOf(v) == IF v.t = "env" /\ v.hasData THEN v.data ELSE JUndef

(************************* private helper methods **************************)
Entry(data, ts) == [data |-> data, timestamp |-> ts]

\* _checkStorageAvailability: the probe writes and deletes a throwaway key
CheckStorageAvailability(probeWorks) == probeWorks

\* _initializeStorage: writes the meta record when none is stored
InitializeStorage(avail, m, t) ==
    IF ~avail THEN m
    ELSE IF FullKey(<<"meta">>) \in DOMAIN m THEN m
    ELSE Put(m, FullKey(<<"meta">>), StringifyMeta(version, t))

\* a cache that drops the entries younger than the expiry time
GetFromCacheReversed(c, entityType, t) ==
    IF entityType \notin DOMAIN c
    THEN [cache |-> c, val |-> JNull]
    ELSE IF t - c[entityType].timestamp < cacheExpiry
         THEN [cache |-> Del(c, entityType), val |-> JNull]
         ELSE [cache |-> c, val |-> c[entityType].data]
\* _getFromCache: val is JNull on a miss; an expired entry is deleted
GetFromCache(c, entityType, t) ==
    IF entityType \notin DOMAIN c
    THEN [cache |-> c, val |-> JNull]
    ELSE IF t - c[entityType].timestamp > cacheExpiry
         THEN [cache |-> Del(c, entityType), val |-> JNull]
         ELSE [cache |-> c, val |-> c[entityType].data]

\* _migrateData: a stored value without a version is wrapped as the data
MigrateData(storedData, t) ==
    IF ~VersionTruthy(storedData)
    THEN Envelope(version, t, TRUE, storedData)
    ELSE storedData

\* clearCache(entityType = null)
ClearCacheOp(c, entityType) ==
    IF entityType # <<>> THEN Del(c, entityType) ELSE Empty

\* a recovery that gives up at the first delete that throws
HandleQuotaExceededStops(m, c, stuck) ==
    LET keysToCheck == {k \in DOMAIN m : Includes(k, "backup")}
    IN [medium |-> IF stuck = {} THEN DelAll(m, keysToCheck) ELSE m,
        cache |-> ClearCacheOp(c, <<>>)]
\* _handleQuotaExceeded: stuck are the backup keys whose delete throws
HandleQuotaExceeded(m, c, stuck) ==
    LET keysToCheck == {k \in DOMAIN m : Includes(k, "backup")}
    IN [medium |-> DelAll(m, keysToCheck \ stuck),
        cache |-> ClearCacheOp(c, <<>>)]

\* _handleStorageError: only a quota-exceeded error starts the recovery
HandleStorageError(m, c, errorName, stuck) ==
    IF errorName = "QuotaExceededError"
    THEN HandleQuotaExceeded(m, c, stuck)
    ELSE [medium |-> m, cache |-> c]

(***************************** public methods ******************************)
Result(m, c, ok, val, read) ==
    [medium |-> m, cache |-> c, ok |-> ok, val |-> val, read |-> read]

\* save(entityType, data); wf is what localStorage.setItem does:
\* "ok", "quota" (throws QuotaExceededError) or "error" (throws another error)
SaveOp(avail, m, c, entityType, data, t, wf, stuck) ==
    IF ~avail THEN Result(m, c, FALSE, JUndef, FALSE)
    ELSE IF ~CanStringify(data)
    THEN LET h == HandleStorageError(m, c, "TypeError", stuck)
         IN Result(h.medium, h.cache, FALSE, JUndef, FALSE)
    ELSE IF wf = "quota"
    THEN LET h == HandleStorageError(m, c, "QuotaExceededError", stuck)
         IN Result(h.medium, h.cache, FALSE, JUndef, FALSE)
    ELSE IF wf = "error"
    THEN LET h == HandleStorageError(m, c, "Error", stuck)
         IN Result(h.medium, h.cache, FALSE, JUndef, FALSE)
    ELSE Result(Put(m, FullKey(entityType), StringifyEnvelope(version, t, data)),
                Put(c, entityType, Entry(data, t)),
                TRUE, JUndef, FALSE)

\* a load that writes the envelope it migrated back to the medium
LoadOpWriteBack(avail, m, c, entityType, defaultValue, t, rf) ==
    IF ~avail THEN Result(m, c, TRUE, defaultValue, FALSE)
    ELSE LET g == GetFromCache(c, entityType, t)
             fullKey == FullKey(entityType)
         IN IF g.val.t # "null"
            THEN Result(m, g.cache, TRUE, g.val, FALSE)
            ELSE IF rf = "throw"
            THEN Result(m, g.cache, TRUE, defaultValue, TRUE)
            ELSE IF fullKey \notin DOMAIN m
            THEN Result(m, g.cache, TRUE, defaultValue, TRUE)
            ELSE IF ~CanParse(m[fullKey])
            THEN Result(m, g.cache, TRUE, defaultValue, TRUE)
            ELSE IF ~CanReadProps(Parse(m[fullKey]))
            THEN Result(m, g.cache, TRUE, defaultValue, TRUE)
            ELSE LET migratedData == MigrateData(Parse(m[fullKey]), t)
                 IN Result(Put(m, fullKey, [s |-> "json", v |-> migratedData]),
                           Put(g.cache, entityType, Entry(DataOf(migratedData), t)),
                           TRUE, DataOf(migratedData), TRUE)

\* load(entityType, defaultValue); rf is what localStorage.getItem does:
\* "ok" or "throw".  read tells whether the medium was read.
LoadOp(avail, m, c, entityType, defaultValue, t, rf) ==
    IF ~avail THEN Result(m, c, TRUE, defaultValue, FALSE)
    ELSE LET g == GetFromCache(c, entityType, t)
             fullKey == FullKey(entityType)
         IN IF g.val.t # "null"
            THEN Result(m, g.cache, TRUE, g.val, FALSE)
            ELSE IF rf = "throw"
            THEN Result(m, g.cache, TRUE, defaultValue, TRUE)
            ELSE IF fullKey \notin DOMAIN m
            THEN Result(m, g.cache, TRUE, defaultValue, TRUE)
            ELSE IF ~CanParse(m[fullKey])
            THEN Result(m, g.cache, TRUE, defaultValue, TRUE)
            ELSE IF ~CanReadProps(Parse(m[fullKey]))
            THEN Result(m, g.cache, TRUE, defaultValue, TRUE)
            ELSE LET migratedData == MigrateData(Parse(m[fullKey]), t)
                 IN Result(m,
                           Put(g.cache, entityType, Entry(DataOf(migratedData), t)),
                           TRUE, DataOf(migratedData), TRUE)

\* a remove that deletes the key and leaves the cache entry
RemoveOpKeepsCache(avail, m, c, entityType, df) ==
    IF ~avail THEN Result(m, c, FALSE, JUndef, FALSE)
    ELSE IF df = "throw" THEN Result(m, c, FALSE, JUndef, FALSE)
    ELSE Result(Del(m, FullKey(entityType)), c, TRUE, JUndef, FALSE)
\* remove(entityType); df is what localStorage.removeItem does
RemoveOp(avail, m, c, entityType, df) ==
    IF ~avail THEN Result(m, c, FALSE, JUndef, FALSE)
    ELSE IF df = "throw" THEN Result(m, c, FALSE, JUndef, FALSE)
    ELSE Result(Del(m, FullKey(entityType)), Del(c, entityType), TRUE, JUndef, FALSE)

\* a clear() that spares the meta record
KeysToRemoveButMeta(m) ==
    {k \in DOMAIN m : StartsWith(k, storageKey) /\ k # FullKey(<<"meta">>)}
\* the keys clear() collects: those that start with the storage key
KeysToRemove(m) == {k \in DOMAIN m : StartsWith(k, storageKey)}

\* clear(); done are the keys deleted before a removeItem throws, all of
\* KeysToRemove(m) when none throws
ClearOp(avail, m, c, done) ==
    IF ~avail THEN Result(m, c, FALSE, JUndef, FALSE)
    ELSE IF done # KeysToRemove(m)
    THEN Result(DelAll(m, done), c, FALSE, JUndef, FALSE)
    ELSE Result(DelAll(m, done), Empty, TRUE, JUndef, FALSE)

\* a getEntityTypes that selects the keys as clear() does, without the "_"
GetEntityTypesLoose(avail, m) ==
    IF ~avail THEN {}
    ELSE {Substring(k, Len(Prefix)) : k \in {x \in DOMAIN m : StartsWith(x, storageKey)}}
\* getEntityTypes(), as the set of the names it returns
GetEntityTypes(avail, m) ==
    IF ~avail THEN {}
    ELSE {Substring(k, Len(Prefix)) : k \in {x \in DOMAIN m : StartsWith(x, Prefix)}}

\* an exists that asks the medium whatever the availability flag says
ExistsUnguarded(avail, m, entityType) == FullKey(entityType) \in DOMAIN m
\* exists(entityType)
Exists(avail, m, entityType) ==
    IF ~avail THEN FALSE ELSE FullKey(entityType) \in DOMAIN m

\* an exists that answers from the cache when it holds an entry
ExistsOpCacheFirst(avail, m, c, entityType, rf) ==
    IF avail /\ entityType \in DOMAIN c
    THEN Result(m, c, TRUE, JBool(TRUE), FALSE)
    ELSE IF avail /\ rf = "throw"
    THEN Result(m, c, FALSE, JThrown("Error"), TRUE)
    ELSE Result(m, c, TRUE, JBool(Exists(avail, m, entityType)), avail)
\* exists(entityType) as a call; rf is what localStorage.getItem does.  The
\* method has no try block: an exception of getItem leaves it.
ExistsOp(avail, m, c, entityType, rf) ==
    IF avail /\ rf = "throw"
    THEN Result(m, c, FALSE, JThrown("Error"), TRUE)
    ELSE Result(m, c, TRUE, JBool(Exists(avail, m, entityType)), avail)

\* getEntityTypes() as a call; ef is what the enumeration of the keys does:
\* an exception is caught and the empty array returned
GetEntityTypesOp(avail, m, c, ef) ==
    IF avail /\ ef = "throw"
    THEN Result(m, c, TRUE, JNames({}), TRUE)
    ELSE Result(m, c, TRUE, JNames(GetEntityTypes(avail, m)), avail)

\* getStorageInfo(): the counts and the names under which sizes are kept (the
\* sizes themselves, lengths of strings, are not represented)
GetStorageInfoOp(avail, m, c, ef) ==
    IF ~avail
    THEN Result(m, c, TRUE, [t |-> "info", available |-> FALSE], FALSE)
    ELSE IF ef = "throw"
    THEN Result(m, c, TRUE, [t |-> "info", available |-> FALSE], TRUE)
    ELSE Result(m, c, TRUE,
                [t |-> "info", available |-> TRUE,
                 entitySizes |-> {Substring(k, Len(Prefix)) :
                                     k \in {x \in DOMAIN m : StartsWith(x, storageKey)}},
                 itemCount |-> Cardinality(DOMAIN m),
                 cacheSize |-> Cardinality(DOMAIN c),
                 version |-> version],
                TRUE)

\* getCacheStats(): JSON.stringify(value.data) is undefined for an undefined
\* data, and reading its length throws a TypeError that nothing catches
GetCacheStatsOp(m, c, t) ==
    IF \E e \in DOMAIN c : c[e].data.t = "undefined"
    THEN Result(m, c, FALSE, JThrown("TypeError"), FALSE)
    ELSE Result(m, c, TRUE,
                [t |-> "stats", size |-> Cardinality(DOMAIN c),
                 entities |-> {[entityType |-> e, timestamp |-> c[e].timestamp,
                                age |-> t - c[e].timestamp] : e \in DOMAIN c}],
                FALSE)

(*************************** backup and restore ***************************)
\* JavaScript truthiness, typeof v === 'object' and Array.isArray(v)
Falsy(v) == v.t \in {"null", "undefined", "NaN"} \/ (v.t = "num" /\ v.n = 0)
TypeofObject(v) == v.t \notin {"undefined", "NaN", "num"}
IsArray(v) == v.t = "arr"
EntitiesOf(p) == IF p.t = "payload" THEN p.entities ELSE JUndef
Digits == <<"0", "1", "2", "3">>
\* the enumerable properties of a value (for..in, Object.keys): those of a
\* mapping, the indices of an array, none of a number
Entries(v) ==
    IF v.t = "map" THEN v.ents
    ELSE IF v.t = "arr" THEN [i \in 1..Len(v.items) |-> Prop(<<Digits[i]>>, v.items[i])]
    ELSE <<>>
\* existingData.length === 0
LengthIsZero(v) == v.t = "arr" /\ Len(v.items) = 0

\* _validateImportData
ValidateImportData(p) ==
    IF Falsy(p) \/ ~TypeofObject(p) THEN FALSE
    ELSE IF Falsy(EntitiesOf(p)) \/ ~TypeofObject(EntitiesOf(p)) THEN FALSE
    ELSE \A i \in 1..Len(Entries(EntitiesOf(p))) : IsArray(Entries(EntitiesOf(p))[i].v)

\* _mergeEntityData
MergeEntityData(existingData, newData) ==
    IF ~IsArray(existingData) \/ ~IsArray(newData) THEN newData
    ELSE LET existingIds ==
                 {existingData.items[i].id : i \in
                     {j \in 1..Len(existingData.items) : IdTruthy(existingData.items[j].id)}}
             Added(item) == ~IdTruthy(item.id) \/ item.id \notin existingIds
         IN JArr(existingData.items \o SelectSeq(newData.items, Added))

\* the forEach of importData from the i-th entity type on; threw tells that
\* an exception left the loop.  rfs[i] and wfs[i] are what getItem and setItem
\* do in the load and the save of the i-th entity type.
RECURSIVE ImportEach(_, _, _, _, _, _, _, _, _, _)
ImportEach(avail, m, c, ents, i, overwrite, t, rfs, wfs, stuck) ==
    IF i > Len(ents) THEN [medium |-> m, cache |-> c, threw |-> FALSE]
    ELSE LET l == LoadOp(avail, m, c, ents[i].k, JArr(<<>>), t, rfs[i])
         IN IF ~overwrite /\ ~CanReadProps(l.val)
            THEN [medium |-> l.medium, cache |-> l.cache, threw |-> TRUE]
            ELSE LET data == IF overwrite \/ LengthIsZero(l.val)
                             THEN ents[i].v
                             ELSE MergeEntityData(l.val, ents[i].v)
                     sv == SaveOp(avail, l.medium, l.cache, ents[i].k, data, t,
                                  wfs[i], stuck)
                 IN ImportEach(avail, sv.medium, sv.cache, ents, i + 1, overwrite,
                               t, rfs, wfs, stuck)

\* importData(importData, overwrite)
ImportOp(avail, m, c, p, overwrite, t, rfs, wfs, stuck) ==
    IF ~avail \/ Falsy(p) \/ Falsy(EntitiesOf(p))
    THEN Result(m, c, FALSE, JUndef, FALSE)
    ELSE IF ~ValidateImportData(p)
    THEN Result(m, c, FALSE, JUndef, FALSE)
    ELSE LET r == ImportEach(avail, m, c, Entries(EntitiesOf(p)), 1, overwrite,
                             t, rfs, wfs, stuck)
         IN Result(r.medium, r.cache, ~r.threw, JUndef, TRUE)

\* the forEach of exportData over the entity types in enumeration order
RECURSIVE ExportEach(_, _, _, _, _, _, _)
ExportEach(avail, m, c, order, i, t, ents) ==
    IF i > Len(order) THEN [cache |-> c, ents |-> ents]
    ELSE LET l == LoadOp(avail, m, c, order[i], JArr(<<>>), t, "ok")
         IN ExportEach(avail, m, l.cache, order, i + 1, t,
                       Append(ents, Prop(order[i], l.val)))

\* exportData(); order is the order in which the medium enumerates the keys
ExportOp(avail, m, c, order, t) ==
    IF ~avail THEN Result(m, c, FALSE, JNull, FALSE)
    ELSE LET r == ExportEach(avail, m, c, order, 1, t, <<>>)
         IN Result(m, r.cache, TRUE, Payload(version, t, Mapping(r.ents)), TRUE)

(************************* the observed last call **************************)
\* op: the method called; again: the call before it was of the same method;
\* ok: its success
\* flag; val: the value it returned; read: whether it read the medium;
\* fault: what the medium did in the call; overwrite: the flag importData
\* was called with; stuck: the backup keys whose delete threw in the call;
\* saved: the data of the successful
\* save(entityType, data) that this call follows with nothing but load and
\* clearCache of the same entity type in between
NoSaved == [on |-> FALSE, data |-> JUndef]
Call(op, entityType, arg, r, fault, saved) ==
    [op |-> op, again |-> (last.op = op), entityType |-> entityType, arg |-> arg,
     overwrite |-> FALSE, ok |-> r.ok, val |-> r.val, read |-> r.read,
     fault |-> fault, saved |-> saved, stuck |-> {}]
Quiet(op, entityType, saved) ==
    [op |-> op, again |-> (last.op = op), entityType |-> entityType, arg |-> JUndef,
     overwrite |-> FALSE, ok |-> TRUE, val |-> JUndef, read |-> FALSE, fault |-> "ok",
     saved |-> saved, stuck |-> {}]
NoCall ==
    [op |-> "new", again |-> FALSE, entityType |-> <<>>, arg |-> JUndef,
     overwrite |-> FALSE, ok |-> TRUE, val |-> JUndef, read |-> FALSE, fault |-> "ok",
     saved |-> NoSaved, stuck |-> {}]
Follows(entityType) ==
    IF last.saved.on /\ last.entityType = entityType THEN last.saved ELSE NoSaved

(***************************** inputs **************************************)
Tasks == <<"tasks">>
MetaType == <<"meta">>
Types == {Tasks, MetaType}
\* keys of other components that share the medium
OtherStoreKey == <<"taskApp", "2", "_", "tasks">>
UnrelatedKey == <<"theme">>
ForeignString == [s |-> "json", v |-> JNum(7)]
R1 == Rec("n1", "old")
\* what save is called with
SaveValues == {JNull, JArr(<<>>), JArr(<<R1>>), JNaN, JCirc}
\* the default values load is called with
Defaults == {JNull, JArr(<<>>)}
\* values stored under the tasks key before versioning, and a broken string
LegacyStrings ==
    {[s |-> "json", v |-> JArr(<<R1>>)], [s |-> "json", v |-> JObj("v1")],
     [s |-> "json", v |-> JNum(0)], [s |-> "json", v |-> JNull],
     [s |-> "malformed", v |-> JNull]}
Foreign == Put(Put(Empty, OtherStoreKey, ForeignString), UnrelatedKey, ForeignString)
PreMedia == {Foreign} \cup {Put(Foreign, FullKey(Tasks), str) : str \in LegacyStrings}

(***************************** the page ************************************)
\* the filters of the filter buttons and of renderTaskList
Filters == {"all", "pending", "completed", "high", "medium", "low"}
\* a store used without a page
NoPage == [active |-> "none", rendered |-> "none", hasList |-> FALSE]
\* renderTaskList(filter = 'all'): returns at once when the page has no task
\* list element
RenderTaskList(u, filter) ==
    IF ~u.hasList THEN u ELSE [u EXCEPT !.rendered = filter]
\* handleFilterChange(event): marks the clicked button and renders with its
\* filter
HandleFilterChangeOp(u, filterType) ==
    RenderTaskList([u EXCEPT !.active = filterType], filterType)
\* handleTaskServiceEvent(eventType, data): renders without a filter argument
HandleTaskServiceEventOp(u, eventType) == RenderTaskList(u, "all")
\* initializeApp() on a page whose markup marks the button active (or none)
InitializeApp(hasList, active) ==
    RenderTaskList([active |-> active, rendered |-> "none", hasList |-> hasList], "all")

(***************************** the store ***********************************)
\* constructor(storageKey), on a medium that holds pre
Constructed(pre, probeWorks) ==
    /\ isAvailable = CheckStorageAvailability(probeWorks)
    /\ cache = Empty
    /\ medium = InitializeStorage(CheckStorageAvailability(probeWorks), pre, 0)
    /\ now = 0
    /\ last = NoCall
    /\ cacheB = Empty
    /\ ui = NoPage

Init == \E pre \in PreMedia, probeWorks \in BOOLEAN : Constructed(pre, probeWorks)

\* the clock (Date.now()) moves on
Tick ==
    /\ now < MaxTicks * TickMs
    /\ now' = now + TickMs
    /\ last' = Quiet("tick", <<>>, NoSaved)
    /\ UNCHANGED <<medium, cache, isAvailable, cacheB, ui>>

Apply(r) ==
    /\ medium' = r.medium
    /\ cache' = r.cache
    /\ UNCHANGED <<isAvailable, now, cacheB, ui>>

Save(entityType, data, wf) ==
    \E stuck \in SUBSET {k \in DOMAIN medium : Includes(k, "backup")} :
        LET r == SaveOp(isAvailable, medium, cache, entityType, data, now, wf, stuck)
        IN /\ Apply(r)
           /\ last' = [Call("save", entityType, data, r, wf,
                            [on |-> r.ok, data |-> data])
                         EXCEPT !.stuck = IF isAvailable /\ CanStringify(data) /\ wf = "quota"
                                          THEN stuck ELSE {}]

Load(entityType, defaultValue, rf) ==
    LET r == LoadOp(isAvailable, medium, cache, entityType, defaultValue, now, rf)
    IN /\ Apply(r)
       /\ last' = Call("load", entityType, defaultValue, r, rf, Follows(entityType))

Remove(entityType, df) ==
    LET r == RemoveOp(isAvailable, medium, cache, entityType, df)
    IN /\ Apply(r)
       /\ last' = Call("remove", entityType, JUndef, r, df, NoSaved)

\* clear(); done = KeysToRemove(medium) when no removeItem throws
Clear(done) ==
    LET r == ClearOp(isAvailable, medium, cache, done)
    IN /\ Apply(r)
       /\ last' = Call("clear", <<>>, JUndef, r,
                       IF done = KeysToRemove(medium) THEN "ok" ELSE "throw",
                       NoSaved)

ClearCache(entityType) ==
    /\ cache' = ClearCacheOp(cache, entityType)
    /\ last' = Quiet("clearCache", entityType, Follows(entityType))
    /\ UNCHANGED <<medium, isAvailable, now, cacheB, ui>>

\* importData(p, overwrite); the saves it makes may meet a full medium
ImportData(p, overwrite) ==
    \E wfs \in [1..Len(Entries(EntitiesOf(p))) -> {"ok", "quota"}] :
        LET n == Len(Entries(EntitiesOf(p)))
            r == ImportOp(isAvailable, medium, cache, p, overwrite, now,
                          [i \in 1..n |-> "ok"], wfs, {})
        IN /\ Apply(r)
           /\ last' = [Call("import", <<>>, p, r,
                            IF \A i \in 1..n : wfs[i] = "ok" THEN "ok" ELSE "quota",
                            NoSaved) EXCEPT !.overwrite = overwrite]

\* exportData(), the medium enumerating its keys in some order
Enumerations(S) ==
    {f \in [1..Cardinality(S) -> S] : \A i, j \in 1..Cardinality(S) : f[i] = f[j] => i = j}
ExportData ==
    \E order \in Enumerations(GetEntityTypes(isAvailable, medium)) :
        LET r == ExportOp(isAvailable, medium, cache, order, now)
        IN /\ Apply(r)
           /\ last' = Call("export", <<>>, JUndef, r, "ok", NoSaved)

ExistsCall(entityType, rf) ==
    LET r == ExistsOp(isAvailable, medium, cache, entityType, rf)
    IN /\ Apply(r)
       /\ last' = Call("exists", entityType, JUndef, r, rf, NoSaved)

GetEntityTypesCall(ef) ==
    LET r == GetEntityTypesOp(isAvailable, medium, cache, ef)
    IN /\ Apply(r)
       /\ last' = Call("getEntityTypes", <<>>, JUndef, r, ef, NoSaved)

GetStorageInfo(ef) ==
    LET r == GetStorageInfoOp(isAvailable, medium, cache, ef)
    IN /\ Apply(r)
       /\ last' = Call("getStorageInfo", <<>>, JUndef, r, ef, NoSaved)

GetCacheStats ==
    LET r == GetCacheStatsOp(medium, cache, now)
    IN /\ Apply(r)
       /\ last' = Call("getCacheStats", <<>>, JUndef, r, "ok", NoSaved)

\* save and remove called on the second store, which was constructed while
\* the medium worked; they find the medium as the first store left it
SaveB(entityType, data) ==
    LET r == SaveOp(TRUE, medium, cacheB, entityType, data, now, "ok", {})
    IN /\ medium' = r.medium
       /\ cacheB' = r.cache
       /\ last' = Quiet("B.save", entityType, NoSaved)
       /\ UNCHANGED <<cache, isAvailable, now, ui>>

RemoveB(entityType) ==
    LET r == RemoveOp(TRUE, medium, cacheB, entityType, "ok")
    IN /\ medium' = r.medium
       /\ cacheB' = r.cache
       /\ last' = Quiet("B.remove", entityType, NoSaved)
       /\ UNCHANGED <<cache, isAvailable, now, ui>>

\* a click on the filter button whose data-filter is filterType
HandleFilterChange(filterType) ==
    /\ ui' = HandleFilterChangeOp(ui, filterType)
    /\ last' = [Quiet("filterClick", <<>>, NoSaved)
                  EXCEPT !.arg = [t |-> "filter", name |-> filterType]]
    /\ UNCHANGED <<medium, cache, isAvailable, now, cacheB>>

\* the task service tells its listener that tasks changed
HandleTaskServiceEvent(eventType) ==
    /\ ui' = HandleTaskServiceEventOp(ui, eventType)
    /\ last' = [Quiet("taskEvent", <<>>, NoSaved)
                  EXCEPT !.arg = [t |-> "event", name |-> eventType]]
    /\ UNCHANGED <<medium, cache, isAvailable, now, cacheB>>

(***************************************************************************)
(* Spec: one store on a medium that keeps the contract of the host: reads  *)
(* and deletes do not throw, a write succeeds or throws the quota error.   *)
(***************************************************************************)
Next ==
    \/ Tick
    \/ \E e \in Types, d \in SaveValues, wf \in {"ok", "quota"} : Save(e, d, wf)
    \/ \E e \in Types, d \in Defaults : Load(e, d, "ok")
    \/ \E e \in Types : Remove(e, "ok")
    \/ Clear(KeysToRemove(medium))
    \/ \E e \in Types \cup {<<>>} : ClearCache(e)

Spec == Init /\ [][Next]_vars

(***************************************************************************)
(* SpecImport: a store that finds a collection written in an earlier       *)
(* session and is then fed backup payloads.                                *)
(***************************************************************************)
\* greatest length of a stored collection that is still imported into
MaxItems == 2
Users == <<"users">>
Old(id) == Rec(id, "old")
New(id) == Rec(id, "new")
StoredCollections ==
    {<<>>, <<Old("n1"), Old("n2")>>, <<Old("n0")>>, <<Old("s")>>, <<Old(IdAbsent)>>}
Incoming == <<New("n2"), New("n3")>>
ImportedCollections ==
    {Incoming, <<New("n0")>>, <<New("s")>>, <<New(IdAbsent)>>}
ValidPayloads ==
    {Payload(version, 0, Mapping(<<Prop(Tasks, JArr(y))>>)) : y \in ImportedCollections}
    \cup {Payload(version, 0, Mapping(<<Prop(Tasks, JArr(Incoming)),
                                        Prop(Users, JArr(Incoming))>>)),
          Payload(version, 0, Mapping(<<>>))}
\* payloads whose entities are missing, not a mapping, or hold a value that
\* is not a sequence
InvalidPayloads ==
    {Payload(version, 0, JUndef),
     Payload(version, 0, JNum(5)),
     Payload(version, 0, JArr(<<>>)),
     Payload(version, 0, JArr(<<JArr(Incoming)>>)),
     Payload(version, 0, Mapping(<<Prop(Tasks, JArr(Incoming)), Prop(Users, JNum(5))>>)),
     Payload(version, 0, Mapping(<<Prop(Users, JNull), Prop(Tasks, JArr(Incoming))>>))}
Payloads == ValidPayloads \cup InvalidPayloads
ImportPreMedia ==
    {Empty} \cup
    {Put(Empty, FullKey(Tasks), StringifyEnvelope(version, 0, JArr(x))) :
        x \in StoredCollections}

\* the data of the record stored for an entity type, undefined when there is none
StoredData(m, entityType) ==
    IF FullKey(entityType) \in DOMAIN m /\ CanParse(m[FullKey(entityType)])
    THEN DataOf(Parse(m[FullKey(entityType)]))
    ELSE JUndef
Small(m) ==
    \A e \in {Tasks, Users} :
        IsArray(StoredData(m, e)) => Len(StoredData(m, e).items) <= MaxItems

InitImport == \E pre \in ImportPreMedia : Constructed(pre, TRUE)

NextImport ==
    \/ \E p \in Payloads, overwrite \in BOOLEAN : Small(medium) /\ ImportData(p, overwrite)
    \/ \E e \in {Tasks, Users} : Load(e, JArr(<<>>), "ok")
    \/ Clear(KeysToRemove(medium))

SpecImport == InitImport /\ [][NextImport]_vars

(***************************************************************************)
(* SpecExport: a store constructed on an empty medium, filled by saves of  *)
(* sequences and exported.                                                  *)
(***************************************************************************)
InitExport == Constructed(Empty, TRUE)

NextExport ==
    \/ Tick
    \/ \E e \in {Tasks, Users}, x \in {<<>>, <<Old("n1")>>, <<Old("n1"), Old("n2")>>} :
          Save(e, JArr(x), "ok")
    \/ ExportData

SpecExport == InitExport /\ [][NextExport]_vars

(***************************************************************************)
(* SpecFaulty: one store and every public method on a medium whose reads,  *)
(* writes, deletes and enumerations may throw, and which holds backups.    *)
(* The clock stands still.                                                 *)
(***************************************************************************)
\* a record of this store under a name that contains "backup", and a backup
\* kept by another component
BackupType == <<"backup">>
ForeignBackupKey == <<"notes", "backup">>
BackupKeys == {FullKey(BackupType), ForeignBackupKey}
FaultyPreMedia ==
    {Put(Put(pre, FullKey(BackupType), StringifyEnvelope(version, 0, JArr(<<R1>>))),
         ForeignBackupKey, ForeignString) : pre \in PreMedia}
FaultyPayloads ==
    {Payload(version, 0, Mapping(<<Prop(Tasks, JArr(<<New("n2")>>))>>)),
     Payload(version, 0, JUndef)}

InitFaulty == \E pre \in FaultyPreMedia, probeWorks \in BOOLEAN : Constructed(pre, probeWorks)

NextFaulty ==
    \/ \E d \in {JArr(<<R1>>), JCirc}, wf \in {"ok", "quota", "error"} : Save(Tasks, d, wf)
    \/ \E e \in Types, d \in Defaults, rf \in {"ok", "throw"} : Load(e, d, rf)
    \/ \E df \in {"ok", "throw"} : Remove(Tasks, df)
    \/ \E done \in SUBSET KeysToRemove(medium) : Clear(done)
    \/ ClearCache(<<>>)
    \/ \E p \in FaultyPayloads, overwrite \in BOOLEAN : Small(medium) /\ ImportData(p, overwrite)
    \/ ExportData
    \/ \E e \in Types, rf \in {"ok", "throw"} : ExistsCall(e, rf)
    \/ \E ef \in {"ok", "throw"} : GetEntityTypesCall(ef)
    \/ \E ef \in {"ok", "throw"} : GetStorageInfo(ef)
    \/ GetCacheStats

SpecFaulty == InitFaulty /\ [][NextFaulty]_vars

(***************************************************************************)
(* SpecShared: two stores constructed with the same storage key on one     *)
(* medium that keeps the contract of the host.                             *)
(***************************************************************************)
R2 == Rec("n2", "new")
InitShared == Constructed(Empty, TRUE)

NextShared ==
    \/ Tick
    \/ Save(Tasks, JArr(<<R1>>), "ok")
    \/ \E d \in Defaults : Load(Tasks, d, "ok")
    \/ ClearCache(Tasks)
    \/ ExistsCall(Tasks, "ok")
    \/ SaveB(Tasks, JArr(<<R2>>))
    \/ RemoveB(Tasks)

SpecShared == InitShared /\ [][NextShared]_vars

(***************************************************************************)
(* SpecUI: the page after initializeApp(), its filter buttons clicked and  *)
(* the task service sending events while the clock moves on.  The task     *)
(* service is not part of src/: it appears as the events its listener gets.*)
(***************************************************************************)
TaskEvents == {"taskCreated", "taskUpdated", "taskDeleted", "tasksCleared"}
InitUI ==
    \E hasList \in BOOLEAN, active \in Filters \cup {"none"} :
        /\ isAvailable = CheckStorageAvailability(TRUE)
        /\ cache = Empty
        /\ medium = InitializeStorage(TRUE, Empty, 0)
        /\ now = 0
        /\ last = NoCall
        /\ cacheB = Empty
        /\ ui = InitializeApp(hasList, active)

NextUI ==
    \/ Tick
    \/ \E f \in Filters : HandleFilterChange(f)
    \/ \E ev \in TaskEvents : HandleTaskServiceEvent(ev)

SpecUI == InitUI /\ [][NextUI]_vars

(***************************************************************************)
(* Properties of save, load, clearCache and clear, under Spec.             *)
(***************************************************************************)
\* JSON.parse(JSON.stringify(v)) gives v back
Serializable(v) == CanStringify(v) /\ ToJSON(v) = v /\ v.t # "undefined"
Valid(c, entityType, t) ==
    /\ entityType \in DOMAIN c
    /\ t - c[entityType].timestamp <= cacheExpiry
InNamespace(k) == StartsWith(k, Prefix)

\* C1: after save(E, D) returned true for a serializable D, a load(E, d) that
\* follows with only loads and clearCache(E) in between returns D, and the
\* load right after clearCache(E) reads the medium.
RoundTrip ==
    [][(/\ last'.op = "load"
        /\ last'.saved.on
        /\ Serializable(last'.saved.data))
       => /\ last'.val = last'.saved.data
          /\ (last.op = "clearCache" => last'.read)]_vars
RoundTripWitness ==
    /\ last.op = "load"
    /\ last.saved.on
    /\ last.read
    /\ last.val = JArr(<<R1>>)
    /\ Tasks \in DOMAIN cache

\* C2: an entry created at t0 serves every load at t with t - t0 <= cacheExpiry
\* without a new timestamp; the first load after that evicts it and reads the
\* medium; the passage of time alone evicts nothing.
CacheTTLClaim ==
    [][/\ (last'.op = "load" /\ last'.entityType \in DOMAIN cache)
          => LET e == last'.entityType
             IN IF now - cache[e].timestamp <= cacheExpiry
                THEN /\ last'.val = cache[e].data
                     /\ ~last'.read
                     /\ e \in DOMAIN cache'
                     /\ cache'[e] = cache[e]
                ELSE /\ last'.read
                     /\ (e \in DOMAIN cache' => cache'[e].timestamp = now)
       /\ (last'.op = "tick" => cache' = cache)]_vars

\* C3: whenever a non-expired entry exists for E, load(E, d) returns the
\* entry's data and does not read the medium, a cached null included.
CacheFirstClaim ==
    [][(last'.op = "load" /\ Valid(cache, last'.entityType, now))
       => /\ last'.val = cache[last'.entityType].data
          /\ ~last'.read]_vars

\* C4: on a cache miss, load(E, d) of a stored value that is not an envelope
\* returns that value and leaves the medium as it was.
LegacyStored(m, entityType) ==
    /\ FullKey(entityType) \in DOMAIN m
    /\ CanParse(m[FullKey(entityType)])
    /\ Parse(m[FullKey(entityType)]).t \notin {"env", "metaobj"}
LegacyMigrationClaim ==
    [][(/\ last'.op = "load"
        /\ last'.fault = "ok"
        /\ isAvailable
        /\ ~Valid(cache, last'.entityType, now)
        /\ LegacyStored(medium, last'.entityType))
       => /\ last'.val = Parse(medium[FullKey(last'.entityType)])
          /\ medium' = medium]_vars

\* C5: clear() leaves every key outside the namespace "<storageKey>_..." with
\* its value, and when it succeeds no key of the namespace and no cache entry
\* is left.
ClearFrameClaim ==
    [][(last'.op = "clear" /\ isAvailable)
       => /\ \A k \in DOMAIN medium :
                ~InNamespace(k) => (k \in DOMAIN medium' /\ medium'[k] = medium[k])
          /\ last'.ok => /\ \A k \in DOMAIN medium' : ~InNamespace(k)
                         /\ cache' = Empty]_vars

\* C6: on an available store clear() returns true and leaves getEntityTypes()
\* empty, and a clear() right after a successful clear() returns true and
\* changes neither the medium nor the cache.
IdempotentClear ==
    [][(last'.op = "clear" /\ isAvailable)
       => /\ last'.ok
          /\ GetEntityTypes(isAvailable', medium') = {}
          /\ (last.op = "clear" /\ last.ok)
                => (medium' = medium /\ cache' = cache)]_vars
IdempotentClearWitness ==
    /\ last.op = "clear"
    /\ last.again
    /\ last.ok
    /\ isAvailable
    /\ UnrelatedKey \in DOMAIN medium

(***************************************************************************)
(* Properties of importData, under SpecImport, and of exportData, under    *)
(* SpecExport.                                                              *)
(***************************************************************************)
EntriesOfCall(c) == Entries(EntitiesOf(c.arg))
HoldsCollection(m, entityType) ==
    IsArray(StoredData(m, entityType)) /\ Len(StoredData(m, entityType).items) > 0
EmptyOrAbsent(m, entityType) ==
    FullKey(entityType) \notin DOMAIN m \/ LengthIsZero(StoredData(m, entityType))
\* x, then the records of y whose id is the id of no record of x
HasId(x, id) == \E i \in 1..Len(x) : x[i].id = id
Fresh(x, y) == SelectSeq(y, LAMBDA item : item.id = IdAbsent \/ ~HasId(x, item.id))

\* C7: importData(payload, false) onto a non-empty collection X of E stores X
\* followed by the incoming records whose id is the id of no record of X,
\* whatever value the id has.
MergeOnImportClaim ==
    [][(/\ last'.op = "import"
        /\ ~last'.overwrite
        /\ last'.fault = "ok"
        /\ last'.arg \in ValidPayloads)
       => \A i \in 1..Len(EntriesOfCall(last')) :
             LET e == EntriesOfCall(last')[i]
             IN HoldsCollection(medium, e.k)
                => StoredData(medium', e.k) =
                       JArr(StoredData(medium, e.k).items
                            \o Fresh(StoredData(medium, e.k).items, e.v.items))]_vars

\* C8: an importData of a valid payload that reports success, with overwrite
\* or onto an empty or absent collection, leaves each entity type of the
\* payload holding exactly the imported collection.
OverwriteOnImportClaim ==
    [][(/\ last'.op = "import"
        /\ last'.ok
        /\ last'.arg \in ValidPayloads)
       => \A i \in 1..Len(EntriesOfCall(last')) :
             LET e == EntriesOfCall(last')[i]
             IN (last'.overwrite \/ EmptyOrAbsent(medium, e.k))
                => StoredData(medium', e.k) = e.v]_vars

\* C9: the value exportData() returns, given to importData(_, true) of a
\* store constructed on an empty medium, is accepted, and that store then
\* loads for every saved entity type what the exporting store loads.
FreshStore == InitializeStorage(TRUE, Empty, now)
AllOk(p) == [i \in 1..Len(Entries(EntitiesOf(p))) |-> "ok"]
Restored(p) ==
    ImportOp(TRUE, FreshStore, Empty, p, TRUE, now, AllOk(p), AllOk(p), {})
ExportImportFidelityClaim ==
    (last.op = "export" /\ last.ok)
    => /\ Restored(last.val).ok
       /\ \A e \in {Tasks, Users} :
             FullKey(e) \in DOMAIN medium
             => LoadOp(TRUE, Restored(last.val).medium, Restored(last.val).cache,
                       e, JArr(<<>>), now, "ok").val
                = LoadOp(isAvailable, medium, cache, e, JArr(<<>>), now, "ok").val

\* C10: importData of a payload whose entities are missing, not a mapping,
\* or hold a value that is not a sequence returns false and changes neither
\* the medium nor the cache.
BadEntities(p) ==
    \/ EntitiesOf(p).t # "map"
    \/ \E i \in 1..Len(Entries(EntitiesOf(p))) : ~IsArray(Entries(EntitiesOf(p))[i].v)
ImportValidationClaim ==
    [][(last'.op = "import" /\ isAvailable /\ BadEntities(last'.arg))
       => /\ ~last'.ok
          /\ medium' = medium
          /\ cache' = cache]_vars

(***************************************************************************)
(* Properties of the failures of importData, under SpecImport.             *)
(***************************************************************************)
\* C11: importData of a valid payload returns false when a save of one of
\* the payload's entity types fails, and returns true only when every entity
\* type of the payload was stored.
ImportFailureClaim ==
    [][(last'.op = "import" /\ isAvailable /\ last'.arg \in ValidPayloads)
       => /\ last'.fault = "quota" => ~last'.ok
          /\ last'.ok => \A i \in 1..Len(EntriesOfCall(last')) :
                            IsArray(StoredData(medium', EntriesOfCall(last')[i].k))]_vars

(***************************************************************************)
(* Properties of the store on a faulty medium, under SpecFaulty.           *)
(***************************************************************************)
\* C12: a store whose construction probe failed stays unavailable, also while
\* the medium works: save, remove, clear and importData return false, load
\* returns the default, exportData returns null, getEntityTypes returns the
\* empty array, exists returns false, nothing is thrown and neither the
\* medium nor the cache changes.
UnavailableDegradation ==
    [][~isAvailable
       => /\ ~isAvailable'
          /\ medium' = medium
          /\ cache' = cache
          /\ last'.val.t # "thrown"
          /\ last'.op \in {"save", "remove", "clear", "import"} => ~last'.ok
          /\ last'.op = "load" => last'.val = last'.arg
          /\ last'.op = "export" => last'.val = JNull
          /\ last'.op = "getEntityTypes" => last'.val = JNames({})
          /\ last'.op = "exists" => last'.val = JBool(FALSE)]_vars
UnavailableDegradationWitness ==
    /\ ~isAvailable
    /\ last.op = "exists"
    /\ last.entityType = Tasks
    /\ last.fault = "ok"
    /\ last.val = JBool(FALSE)
    /\ FullKey(Tasks) \in DOMAIN medium

\* C13: in every reachable state, whatever the medium did, the last public
\* method called returned a value: no exception left it.
NeverRaises == last.val.t # "thrown"

\* C14: when the write inside save(E, D) throws the quota-exceeded error,
\* save returns false without throwing, the cache is left empty (so it holds
\* no entry made from D), and every key that contains "backup" is gone from
\* the medium except those whose own delete threw.
QuotaRecovery ==
    [][(/\ last'.op = "save"
        /\ isAvailable
        /\ CanStringify(last'.arg)
        /\ last'.fault = "quota")
       => /\ ~last'.ok
          /\ last'.val.t # "thrown"
          /\ cache' = Empty
          /\ \A k \in DOMAIN medium :
                Includes(k, "backup") /\ k \notin last'.stuck => k \notin DOMAIN medium'
          /\ \A k \in DOMAIN medium :
                ~Includes(k, "backup") \/ k \in last'.stuck
                => (k \in DOMAIN medium' /\ medium'[k] = medium[k])]_vars
QuotaRecoveryWitness ==
    /\ last.op = "save"
    /\ last.fault = "quota"
    /\ last.stuck = {ForeignBackupKey}
    /\ ForeignBackupKey \in DOMAIN medium
    /\ FullKey(BackupType) \notin DOMAIN medium
    /\ FullKey(Tasks) \in DOMAIN medium
    /\ cache = Empty

(***************************************************************************)
(* Properties of remove and of the stored envelopes.                       *)
(***************************************************************************)
\* C15: on an available store whose delete does not throw, remove(E) returns
\* true whether or not E is stored; afterwards exists(E) is false, the cache
\* has no entry for E and the load(E, d) that follows returns d; the keys and
\* cache entries of other entity types are as before, and a second remove(E)
\* returns true and changes nothing.
RemoveClaim ==
    [][/\ (last'.op = "remove" /\ isAvailable)
          => LET e == last'.entityType
             IN /\ last'.ok
                /\ ~Exists(isAvailable', medium', e)
                /\ e \notin DOMAIN cache'
                /\ medium' = Del(medium, FullKey(e))
                /\ cache' = Del(cache, e)
                /\ (last.op = "remove" /\ last.entityType = e)
                      => (medium' = medium /\ cache' = cache)
       /\ (/\ last.op = "remove"
           /\ isAvailable
           /\ last'.op = "load"
           /\ last'.entityType = last.entityType)
          => last'.val = last'.arg]_vars
\* a second remove of tasks in a row, the meta record stored and cached
RemoveClaimWitness ==
    /\ isAvailable
    /\ last.op = "remove"
    /\ last.again
    /\ last.ok
    /\ last.entityType = Tasks
    /\ FullKey(Tasks) \notin DOMAIN medium
    /\ FullKey(MetaType) \in DOMAIN medium
    /\ MetaType \in DOMAIN cache

(***************************************************************************)
(* Properties of two stores on one medium, under SpecShared.               *)
(***************************************************************************)
\* C16: on an available store exists(E) is true exactly when the key
\* "<storageKey>_<E>" is in the medium, whatever the cache holds for E, and
\* it changes neither the medium nor the cache.
ExistsClaim ==
    [][(last'.op = "exists" /\ isAvailable)
       => /\ last'.val = JBool(FullKey(last'.entityType) \in DOMAIN medium)
          /\ medium' = medium
          /\ cache' = cache]_vars
\* the other store removed the key while this store holds a valid entry
ExistsClaimWitness ==
    /\ isAvailable
    /\ last.op = "exists"
    /\ last.entityType = Tasks
    /\ last.val = JBool(FALSE)
    /\ Valid(cache, Tasks, now)
    /\ cache[Tasks].data = JArr(<<R1>>)
    /\ FullKey(Tasks) \notin DOMAIN medium

(***************************************************************************)
(* Properties of load and of the stored envelopes, under SpecFaulty.       *)
(***************************************************************************)
\* C17: load(E, d) leaves every key of the medium as it was, whatever is
\* stored under E's key; when it reads the medium and finds no key it returns
\* d and makes no cache entry, and when the read throws or the stored string
\* does not parse it returns d.
LoadFrameClaim ==
    [][last'.op = "load"
       => LET e == last'.entityType
              k == FullKey(last'.entityType)
          IN /\ medium' = medium
             /\ last'.val.t # "thrown"
             /\ (last'.read /\ last'.fault = "ok" /\ k \notin DOMAIN medium)
                   => /\ last'.val = last'.arg
                      /\ cache' \in {cache, Del(cache, e)}
             /\ (last'.read /\ last'.fault = "throw") => last'.val = last'.arg
             /\ (last'.read /\ k \in DOMAIN medium /\ ~CanParse(medium[k]))
                   => last'.val = last'.arg]_vars
\* a load handed back a legacy value and the legacy string is still stored
LoadFrameWitness ==
    /\ isAvailable
    /\ last.op = "load"
    /\ last.read
    /\ last.entityType = Tasks
    /\ last.val = JArr(<<R1>>)
    /\ LegacyStored(medium, Tasks)
    /\ Tasks \in DOMAIN cache

\* C18: every record under the namespace carries version "2.0" unless it is a
\* string that was in the medium before the store was constructed; every
\* record a step writes carries version "2.0", and a record without a version
\* keeps its value until a save or an importData of its entity type replaces
\* it (or a delete removes it).
Versioned(str) ==
    /\ CanParse(str)
    /\ Parse(str).t \in {"env", "metaobj"}
    /\ Parse(str).version = version
VersionedOrLegacy(m) ==
    \A k \in DOMAIN m : InNamespace(k) => (Versioned(m[k]) \/ m[k] \in LegacyStrings)
EnvelopeVersionInvariant ==
    [][/\ VersionedOrLegacy(medium)
       /\ VersionedOrLegacy(medium')
       /\ \A k \in DOMAIN medium' :
             (InNamespace(k) /\ (k \notin DOMAIN medium \/ medium'[k] # medium[k]))
             => /\ Versioned(medium'[k])
                /\ last'.op \in {"save", "import"}
                /\ last'.op = "save" => k = FullKey(last'.entityType)
                /\ last'.op = "import"
                      => \E i \in 1..Len(EntriesOfCall(last')) :
                            k = FullKey(EntriesOfCall(last')[i].k)]_vars
\* a save replaced the legacy record of tasks; the meta record of the
\* constructor is still there
EnvelopeVersionWitness ==
    /\ last.op = "save"
    /\ last.ok
    /\ last.entityType = Tasks
    /\ Versioned(medium[FullKey(Tasks)])
    /\ FullKey(MetaType) \in DOMAIN medium
    /\ Versioned(medium[FullKey(MetaType)])
    /\ Parse(medium[FullKey(MetaType)]).t = "metaobj"

(***************************************************************************)
(* Divergence of the caches of two stores, under SpecShared.               *)
(***************************************************************************)
\* C19: while store A holds a valid entry for E, A.load(E, d) returns the
\* entry's data without reading the medium, whatever store B has written or
\* removed meanwhile, so it can return a value the medium does not hold; a
\* load of A reads the medium only when A has no entry for E or the entry
\* has expired, and a returned value other than the stored data comes from
\* a valid entry (or is d, for a key that is gone).
CrossInstanceDivergence ==
    [][last'.op = "load"
       => /\ Valid(cache, last'.entityType, now)
                => /\ last'.val = cache[last'.entityType].data
                   /\ ~last'.read
          /\ last'.read => ~Valid(cache, last'.entityType, now)
          /\ last'.val # StoredData(medium, last'.entityType)
                => /\ Valid(cache, last'.entityType, now)
                      \/ FullKey(last'.entityType) \notin DOMAIN medium]_vars
\* A returned its cached collection while the medium holds the one B saved
CrossInstanceDivergenceWitness ==
    /\ last.op = "load"
    /\ ~last.read
    /\ last.entityType = Tasks
    /\ last.val = JArr(<<R1>>)
    /\ StoredData(medium, Tasks) = JArr(<<R2>>)
    /\ Tasks \in DOMAIN cacheB

(***************************************************************************)
(* Repeated merges, under SpecImport.                                      *)
(***************************************************************************)
\* C20: importData(payload, false) onto a non-empty collection X of E appends
\* every incoming record without an id, so the stored records without an id
\* grow by their number in the payload at each import, and adds no record
\* whose id (whatever its value) some record of X already has.
CountId(x, id) == Len(SelectSeq(x, LAMBDA item : item.id = id))
IdlessAppendClaim ==
    [][(/\ last'.op = "import"
        /\ ~last'.overwrite
        /\ last'.fault = "ok"
        /\ last'.arg \in ValidPayloads)
       => \A i \in 1..Len(EntriesOfCall(last')) :
             LET e == EntriesOfCall(last')[i]
                 x == StoredData(medium, e.k).items
                 z == StoredData(medium', e.k).items
             IN HoldsCollection(medium, e.k)
                => /\ CountId(z, IdAbsent) = CountId(x, IdAbsent) + CountId(e.v.items, IdAbsent)
                   /\ \A j \in 1..Len(x) :
                         x[j].id # IdAbsent => CountId(z, x[j].id) = CountId(x, x[j].id)]_vars

(***************************************************************************)
(* Coherence of the cache and the frame of a failed save, under SpecFaulty.*)
(***************************************************************************)
\* the data load finds in the record stored for an entity type
RecordData(m, entityType) ==
    IF /\ FullKey(entityType) \in DOMAIN m
       /\ CanParse(m[FullKey(entityType)])
       /\ CanReadProps(Parse(m[FullKey(entityType)]))
    THEN DataOf(MigrateData(Parse(m[FullKey(entityType)]), 0))
    ELSE JUndef
\* C21: in every state reached by the calls of a single store, failed saves
\* and deletes that throw part-way through clear included, every cache entry
\* belongs to an entity type whose key is in the medium and holds the data of
\* the record stored under that key.
CacheCoherence ==
    \A e \in DOMAIN cache :
        /\ FullKey(e) \in DOMAIN medium
        /\ cache[e].data = RecordData(medium, e)

\* C22: whenever save(E, D) returns false, whatever made it fail, every
\* record of the namespace that was in the medium before the call is there
\* afterwards with the same value.
FailedSaveKeepsRecords ==
    [][(last'.op = "save" /\ ~last'.ok)
       => \A k \in DOMAIN medium :
             InNamespace(k) => (k \in DOMAIN medium' /\ medium'[k] = medium[k])]_vars

(***************************************************************************)
(* getEntityTypes and exists, under SpecFaulty.                            *)
(***************************************************************************)
\* the entity types asked about: those of the inputs and every name that
\* getEntityTypes returns
Asked(m) == Types \cup {BackupType, Users, <<>>} \cup GetEntityTypes(TRUE, m)
\* C23: on an available store the names getEntityTypes() returns are exactly
\* the entity types E for which exists(E) is true; a call whose enumeration
\* works returns that set, computed from the keys of the medium and not from
\* the cache, so "meta" is listed as long as the meta record is stored.
EntityTypesAgreeWithExists ==
    [][isAvailable
       => /\ GetEntityTypes(isAvailable, medium)
                = {e \in Asked(medium) : Exists(isAvailable, medium, e)}
          /\ (MetaType \in GetEntityTypes(isAvailable, medium))
                <=> (FullKey(MetaType) \in DOMAIN medium)
          /\ (last'.op = "getEntityTypes" /\ last'.fault = "ok")
                => /\ last'.val = JNames({e \in Asked(medium) : FullKey(e) \in DOMAIN medium})
                   /\ medium' = medium
                   /\ cache' = cache]_vars
\* tasks is cached but its key is gone: the call lists meta and not tasks
EntityTypesWitness ==
    /\ isAvailable
    /\ last.op = "getEntityTypes"
    /\ last.fault = "ok"
    /\ Tasks \in DOMAIN cache
    /\ MetaType \in last.val.names
    /\ Tasks \notin last.val.names
    /\ OtherStoreKey \in DOMAIN medium

(***************************************************************************)
(* Idempotence of the merge, under SpecImport.                             *)
(***************************************************************************)
\* every record of every collection of the payload has an id
AllHaveIds(p) ==
    \A i \in 1..Len(Entries(EntitiesOf(p))) :
        \A j \in 1..Len(Entries(EntitiesOf(p))[i].v.items) :
            Entries(EntitiesOf(p))[i].v.items[j].id # IdAbsent
\* C24: for a valid payload in which every record has an id, 0 included, a
\* second importData(payload, false) right after the first leaves every
\* stored collection as the first left it.
MergeIdempotent ==
    [][(/\ last.op = "import" /\ last'.op = "import"
        /\ last'.arg = last.arg
        /\ ~last.overwrite /\ ~last'.overwrite
        /\ last.fault = "ok" /\ last'.fault = "ok"
        /\ last'.arg \in ValidPayloads
        /\ AllHaveIds(last'.arg))
       => \A e \in {Tasks, Users} : StoredData(medium', e) = StoredData(medium, e)]_vars

(***************************************************************************)
(* The task list and the filter buttons, under SpecUI.                     *)
(***************************************************************************)
\* C25: every filter-button click and every task-service event on a page
\* whose task list was rendered with the filter of the active button leaves
\* the list rendered with the filter of the button that is then active.
RenderedMatchesActive ==
    [][(/\ last'.op \in {"filterClick", "taskEvent"}
        /\ ui.hasList
        /\ ui.rendered = ui.active)
       => ui'.rendered = ui'.active]_vars

====
